---- MODULE Spec2Model ----
(***************************************************************************)
(* A model of src/server.js: the HTTP facade that dispatches              *)
(* POST /tools/:toolName to one of six GitHub adapters.                    *)
(*                                                                         *)
(* JavaScript values are tagged records [t |-> <typeof>, v |-> <value>];   *)
(* an absent property reads as Undefined, as in JavaScript.                *)
(* A handler runs in three steps, cut at its two awaits: Receive (the      *)
(* synchronous part up to the upstream call), UpstreamReply (the adapter's *)
(* continuation) and Respond (the dispatcher's continuation).              *)
(***************************************************************************)
EXTENDS Integers, Sequences, FiniteSets, TLC

\* Number of requests that may be in flight at once.
NumClients == 2

Clients == 1..NumClients

VARIABLES
    octokit,              \* TRUE iff the Octokit client was constructed at startup
    tools,                \* the names of the tool registry (GET /tools)
    toolImplementations,  \* the own keys of the implementation table
    pc,                   \* per request: "idle", "awaitUpstream", "awaitAdapter", "done"
    request,              \* per request: [toolName, arguments]
    sent,                 \* per request: the upstream calls issued, in order
    reply,                \* per request: how the upstream call settled
    result,               \* per request: how the adapter's promise settled
    response              \* per request: the HTTP responses written, in order

vars == <<octokit, tools, toolImplementations, pc, request, sent, reply, result, response>>

----------------------------------------------------------------------------
(* JavaScript values *)

Undefined == [t |-> "undefined"]
Null == [t |-> "null"]
Num(n) == [t |-> "number", v |-> n]
Str(s) == [t |-> "string", v |-> s]
Arr(s) == [t |-> "array", v |-> s]

Nullish(x) == x.t \in {"undefined", "null"}

\* ToBoolean: undefined, null, 0 and "" are falsy; objects and functions are truthy.
Truthy(x) ==
    CASE x.t = "undefined" -> FALSE
      [] x.t = "null" -> FALSE
      [] x.t = "number" -> x.v # 0
      [] x.t = "string" -> x.v # ""
      [] OTHER -> TRUE

\* a || b
Or(a, b) == IF Truthy(a) THEN a ELSE b

\* String conversion inside a template literal (of the values the model passes).
ToStr(x) ==
    CASE x.t = "string" -> x.v
      [] x.t = "undefined" -> "undefined"
      [] x.t = "null" -> "null"

\* The TypeError V8 raises for a property read on undefined or null.
TypeErr(msg) == [t |-> "object", status |-> Undefined, message |-> msg]
CannotRead(x, prop) ==
    TypeErr("Cannot read properties of " \o x.t \o " (reading '" \o prop \o "')")

----------------------------------------------------------------------------
(* Settlements of the adapter's promise, response bodies, responses *)

NoResult == [kind |-> "none"]
Returned(value) == [kind |-> "returned", value |-> value]
Thrown(message) == [kind |-> "thrown", message |-> message]

ErrorBody(message) == [kind |-> "error", error |-> message]
Response(status, body) == [status |-> status, body |-> body]

NoReply == [state |-> "none"]
Resolved(data) == [state |-> "resolved", data |-> data]
Rejected(error) == [state |-> "rejected", error |-> error]

NoRequest == [toolName |-> "", arguments |-> Undefined]

----------------------------------------------------------------------------
(* Program constants *)

ToolNames ==
    {"get_repository_info", "list_issues", "get_file_contents",
     "search_files", "get_commits", "search_code"}

DefaultPerPage == 30
SearchPerPage == 30
DefaultState == "open"
DefaultRef == "main"

\* Functions every object literal inherits from Object.prototype (a sample).
InheritedFunctions == {"constructor", "toString"}

----------------------------------------------------------------------------
(* Property reads *)

\* obj[key] for an own key of a plain object; an array or a missing key reads undefined.
Get(obj, key) ==
    IF obj.t = "object" /\ key \in DOMAIN obj THEN obj[key] ELSE Undefined

----------------------------------------------------------------------------
(* Buffer.from(text, 'base64').toString('utf-8')                           *)
(* A base64 text is B64(chars): chars 0..63 are the alphabet's sextets,    *)
(* 64 is the padding '=', 65 is a line feed.                               *)

B64(chars) == [t |-> "string", chars |-> chars]

\* The decoder stops at the first '=' and skips what is not in the alphabet.
Sextets(chars) ==
    LET pads == {i \in 1..Len(chars) : chars[i] = 64}
        first == IF pads = {} THEN Len(chars) + 1
                 ELSE CHOOSE i \in pads : \A j \in pads : i <= j
    IN SelectSeq(SubSeq(chars, 1, first - 1), LAMBDA c : c < 64)

Base64Decode(chars) ==
    LET s == Sextets(chars)
        n == (Len(s) * 6) \div 8
    IN [i \in 1..n |->
          LET b == 8 * (i - 1)
              j == b \div 6
              off == b % 6
              pair == s[j + 1] * 64 + s[j + 2]
          IN (pair \div (2 ^ (4 - off))) % 256]

\* UTF-8 decoding of one- and two-byte sequences; a byte that starts neither
\* becomes U+FFFD (65533).
RECURSIVE Utf8ToString(_)
Utf8ToString(bytes) ==
    IF bytes = <<>> THEN <<>>
    ELSE IF bytes[1] < 128 THEN <<bytes[1]>> \o Utf8ToString(Tail(bytes))
    ELSE IF /\ bytes[1] >= 194 /\ bytes[1] <= 223 /\ Len(bytes) >= 2
            /\ bytes[2] >= 128 /\ bytes[2] <= 191
         THEN <<(bytes[1] - 192) * 64 + (bytes[2] - 128)>>
                  \o Utf8ToString(Tail(Tail(bytes)))
    ELSE <<65533>> \o Utf8ToString(Tail(bytes))

----------------------------------------------------------------------------
(* Error normalizer *)

NotFoundMessage == "Resource not found"
ForbiddenMessage == "Rate limit exceeded or insufficient permissions"
ApiErrorPrefix == "GitHub API error: "

\* handleGitHubError with the 403 branch left out.
HandleGitHubErrorNo403(error) ==
    IF Nullish(error) THEN Thrown(CannotRead(error, "status").message)
    ELSE IF Get(error, "status") = Num(404) THEN Returned(ErrorBody(NotFoundMessage))
    ELSE Returned(ErrorBody(ApiErrorPrefix \o error.message))

\* handleGitHubError passing the upstream message through without the prefix.
HandleGitHubErrorRaw(error) ==
    IF Nullish(error) THEN Thrown(CannotRead(error, "status").message)
    ELSE IF Get(error, "status") = Num(404) THEN Returned(ErrorBody(NotFoundMessage))
    ELSE IF Get(error, "status") = Num(403) THEN Returned(ErrorBody(ForbiddenMessage))
    ELSE Returned(ErrorBody(error.message))

\* handleGitHubError(error): reading error.status of null or undefined throws.
HandleGitHubError(error) ==
    IF Nullish(error) THEN Thrown(CannotRead(error, "status").message)
    ELSE IF Get(error, "status") = Num(404) THEN Returned(ErrorBody(NotFoundMessage))
    ELSE IF Get(error, "status") = Num(403) THEN Returned(ErrorBody(ForbiddenMessage))
    ELSE Returned(ErrorBody(ApiErrorPrefix \o error.message))

----------------------------------------------------------------------------
(* Adapters: the synchronous part, up to the await of the upstream call *)

\* The search query both search adapters build.
SearchQuery(a) ==
    ToStr(Get(a, "query")) \o " repo:" \o ToStr(Get(a, "owner")) \o "/"
        \o ToStr(Get(a, "repo"))

\* The one octokit.rest call of adapter `tool` for the arguments object a.
UpstreamCall(tool, a) ==
    CASE tool = "get_repository_info" ->
           [api |-> "repos.get",
            params |-> [owner |-> Get(a, "owner"), repo |-> Get(a, "repo")]]
      [] tool = "list_issues" ->
           [api |-> "issues.listForRepo",
            params |-> [owner |-> Get(a, "owner"), repo |-> Get(a, "repo"),
                        state |-> Or(Get(a, "state"), Str(DefaultState)),
                        per_page |-> Or(Get(a, "per_page"), Num(DefaultPerPage))]]
      [] tool = "get_file_contents" ->
           [api |-> "repos.getContent",
            params |-> [owner |-> Get(a, "owner"), repo |-> Get(a, "repo"),
                        path |-> Get(a, "path"),
                        ref |-> Or(Get(a, "ref"), Str(DefaultRef))]]
      [] tool = "search_files" ->
           [api |-> "search.code",
            params |-> [q |-> Str(SearchQuery(a)), per_page |-> Num(SearchPerPage)]]
      [] tool = "get_commits" ->
           [api |-> "repos.listCommits",
            params |-> [owner |-> Get(a, "owner"), repo |-> Get(a, "repo"),
                        sha |-> Or(Get(a, "sha"), Str(DefaultRef)),
                        per_page |-> Or(Get(a, "per_page"), Num(DefaultPerPage))]]
      [] tool = "search_code" ->
           [api |-> "search.code",
            params |-> [q |-> Str(SearchQuery(a)), per_page |-> Num(SearchPerPage)]]

\* The first property an adapter reads of its argument.
FirstRead(tool) == IF tool \in {"search_files", "search_code"} THEN "query" ELSE "owner"

\* An adapter that issues its call a second time.
AdapterStartTwice(tool, args) ==
    IF Nullish(args)
    THEN [calls |-> <<>>, settled |-> HandleGitHubError(CannotRead(args, FirstRead(tool)))]
    ELSE [calls |-> <<UpstreamCall(tool, args), UpstreamCall(tool, args)>>,
          settled |-> NoResult]

\* The adapter up to its await: reading a property of a missing arguments object
\* throws inside the try block, before any call is made.
AdapterStart(tool, args) ==
    IF Nullish(args)
    THEN [calls |-> <<>>, settled |-> HandleGitHubError(CannotRead(args, FirstRead(tool)))]
    ELSE [calls |-> <<UpstreamCall(tool, args)>>, settled |-> NoResult]

----------------------------------------------------------------------------
(* Adapters: the continuation, once the upstream call has settled *)

GetRepositoryInfoResult(data) ==
    Returned([kind |-> "repository",
              name |-> Get(data, "name"),
              stars |-> Get(data, "stargazers_count"),
              forks |-> Get(data, "forks_count"),
              default_branch |-> Get(data, "default_branch")])

\* data.map(issue => ...): issue.user.login throws when the user is null.
ListIssuesResult(data) ==
    IF \E i \in 1..Len(data.v) : Nullish(data.v[i].user)
    THEN LET i == CHOOSE k \in 1..Len(data.v) :
                      /\ Nullish(data.v[k].user)
                      /\ \A m \in 1..(k - 1) : ~Nullish(data.v[m].user)
         IN HandleGitHubError(CannotRead(data.v[i].user, "login"))
    ELSE Returned([kind |-> "issues",
                   items |-> [i \in 1..Len(data.v) |->
                                [number |-> data.v[i].number,
                                 author |-> data.v[i].user.login,
                                 labels |-> [k \in 1..Len(data.v[i].labels) |->
                                               data.v[i].labels[k].name]]]])

FilePayload(data) ==
    [kind |-> "file",
     name |-> Get(data, "name"),
     path |-> Get(data, "path"),
     size |-> Get(data, "size"),
     content |-> Utf8ToString(Base64Decode(data.content.chars)),
     sha |-> Get(data, "sha")]

NotAFileMessage == "Path is not a file"
BufferFromMessage ==
    "The first argument must be of type string or an instance of Buffer, ArrayBuffer, or Array or an Array-like Object. Received undefined"

\* get_file_contents testing for a directory object instead of for a file.
GetFileContentsResultUnlessDir(data) ==
    IF Get(data, "type") # Str("dir")
    THEN IF Get(data, "content").t = "string"
         THEN Returned(FilePayload(data))
         ELSE HandleGitHubError(TypeErr(BufferFromMessage))
    ELSE Returned(ErrorBody(NotAFileMessage))

\* Buffer.from(undefined, 'base64') throws a TypeError inside the try block.
GetFileContentsResult(data) ==
    IF Get(data, "type") = Str("file")
    THEN IF Get(data, "content").t = "string"
         THEN Returned(FilePayload(data))
         ELSE HandleGitHubError(TypeErr(BufferFromMessage))
    ELSE Returned(ErrorBody(NotAFileMessage))

\* data.items.map(...) throws when the response carries no items.
SearchResult(tool, data) ==
    IF Nullish(Get(data, "items"))
    THEN HandleGitHubError(CannotRead(Get(data, "items"), "map"))
    ELSE Returned([kind |-> "search",
                   total_count |-> Get(data, "total_count"),
                   items |-> [i \in 1..Len(data.items.v) |->
                                LET item == data.items.v[i] IN
                                IF tool = "search_code"
                                THEN [name |-> item.name, path |-> item.path,
                                      text_matches |-> Or(item.text_matches, Arr(<<>>))]
                                ELSE [name |-> item.name, path |-> item.path]]])

\* data.map(commit => ...): commit.commit.author.name throws when the author is null.
GetCommitsResult(data) ==
    IF \E i \in 1..Len(data.v) : Nullish(data.v[i].commit.author)
    THEN LET i == CHOOSE k \in 1..Len(data.v) :
                      /\ Nullish(data.v[k].commit.author)
                      /\ \A m \in 1..(k - 1) : ~Nullish(data.v[m].commit.author)
         IN HandleGitHubError(CannotRead(data.v[i].commit.author, "name"))
    ELSE Returned([kind |-> "commits",
                   items |-> [i \in 1..Len(data.v) |->
                                [sha |-> data.v[i].sha,
                                 message |-> data.v[i].commit.message,
                                 author |-> data.v[i].commit.author.name]]])

Reshape(tool, data) ==
    CASE tool = "get_repository_info" -> GetRepositoryInfoResult(data)
      [] tool = "list_issues" -> ListIssuesResult(data)
      [] tool = "get_file_contents" -> GetFileContentsResult(data)
      [] tool = "search_files" -> SearchResult(tool, data)
      [] tool = "get_commits" -> GetCommitsResult(data)
      [] tool = "search_code" -> SearchResult(tool, data)

\* The adapter after its await: the catch block normalizes a rejection, and
\* whatever the reshaping throws.
AdapterContinue(tool, settled) ==
    IF settled.state = "rejected"
    THEN HandleGitHubError(settled.error)
    ELSE Reshape(tool, settled.data)

----------------------------------------------------------------------------
(* Dispatcher: POST /tools/:toolName *)

NotAFunctionMessage == "toolImplementations[toolName] is not a function"

\* toolImplementations[toolName]: an own key is an adapter; other names are
\* looked up along the prototype chain of the object literal.
Lookup(table, name) ==
    IF name \in table THEN [t |-> "function", v |-> name]
    ELSE IF name \in InheritedFunctions THEN [t |-> "function", v |-> name]
    ELSE IF name = "__proto__" THEN [t |-> "object", v |-> "Object.prototype"]
    ELSE Undefined

\* toolImplementations[toolName](args), up to the first await.
\* Object(args) is args itself, or a new empty object for undefined and null;
\* Object.prototype.toString ignores its argument; calling what is not a
\* function throws synchronously.
Invoke(table, impl, args) ==
    IF impl.t # "function"
    THEN [calls |-> <<>>, settled |-> NoResult, thrown |-> TRUE]
    ELSE IF impl.v \in table
    THEN AdapterStart(impl.v, args) @@ [thrown |-> FALSE]
    ELSE IF impl.v = "constructor"
    THEN [calls |-> <<>>, thrown |-> FALSE,
          settled |-> Returned([kind |-> "value",
                                value |-> IF Nullish(args) THEN [t |-> "object"] ELSE args])]
    ELSE [calls |-> <<>>, thrown |-> FALSE,
          settled |-> Returned([kind |-> "value", value |-> Str("[object Object]")])]

MissingToolMessage == "Tool not found"
MissingTokenMessage == "GitHub token not configured"

\* A dispatcher that does not test the client handle.
DispatchUnchecked(table, configured, toolName, args) ==
    LET impl == Lookup(table, toolName) IN
    IF ~Truthy(impl)
    THEN [pc |-> "done", result |-> NoResult, sent |-> <<>>,
          response |-> <<Response(404, ErrorBody(MissingToolMessage))>>]
    ELSE LET inv == Invoke(table, impl, args) IN
         IF inv.thrown
         THEN [pc |-> "done", result |-> Thrown(NotAFunctionMessage), sent |-> <<>>,
               response |-> <<Response(500, ErrorBody(NotAFunctionMessage))>>]
         ELSE [pc |-> IF inv.settled = NoResult THEN "awaitUpstream" ELSE "awaitAdapter",
               result |-> inv.settled, sent |-> inv.calls, response |-> <<>>]

\* The handler up to its await: where it stands, what it has answered, how the
\* adapter has settled and which upstream calls were issued.
Dispatch(table, configured, toolName, args) ==
    LET impl == Lookup(table, toolName) IN
    IF ~Truthy(impl)
    THEN [pc |-> "done", result |-> NoResult, sent |-> <<>>,
          response |-> <<Response(404, ErrorBody(MissingToolMessage))>>]
    ELSE IF ~configured
    THEN [pc |-> "done", result |-> NoResult, sent |-> <<>>,
          response |-> <<Response(500, ErrorBody(MissingTokenMessage))>>]
    ELSE LET inv == Invoke(table, impl, args) IN
         IF inv.thrown
         THEN [pc |-> "done", result |-> Thrown(NotAFunctionMessage), sent |-> <<>>,
               response |-> <<Response(500, ErrorBody(NotAFunctionMessage))>>]
         ELSE [pc |-> IF inv.settled = NoResult THEN "awaitUpstream" ELSE "awaitAdapter",
               result |-> inv.settled, sent |-> inv.calls, response |-> <<>>]

\* A dispatcher that answers every error object with status 500.
RespondWithErrorStatus(settled) ==
    IF settled.kind = "returned"
    THEN <<Response(IF settled.value.kind = "error" THEN 500 ELSE 200, settled.value)>>
    ELSE <<Response(500, ErrorBody(settled.message))>>

\* A dispatcher without its try/catch: a rejection is answered by nobody.
RespondWithUncaught(settled) ==
    IF settled.kind = "returned"
    THEN <<Response(200, settled.value)>>
    ELSE <<>>

\* res.json(result), or the catch block's res.status(500).json(...).
RespondWith(settled) ==
    IF settled.kind = "returned"
    THEN <<Response(200, settled.value)>>
    ELSE <<Response(500, ErrorBody(settled.message))>>

----------------------------------------------------------------------------
(* Inputs: what a caller posts and how the upstream API answers *)

ToolNameSamples == ToolNames \cup InheritedFunctions \cup {"__proto__", "delete_repository"}

Required == [t |-> "object", owner |-> Str("octocat"), repo |-> Str("Hello-World"),
             path |-> Str("README.md"), query |-> Str("express")]

\* No `arguments` at all, null, an empty object, the required parameters alone,
\* and the optional parameters supplied with truthy and with falsy values.
ArgSamples ==
    {Undefined,
     Null,
     [t |-> "object"],
     Required,
     Required @@ [state |-> Str("closed"), per_page |-> Num(5),
                  sha |-> Str("dev"), ref |-> Str("dev")],
     Required @@ [state |-> Str(""), per_page |-> Num(0),
                  sha |-> Str(""), ref |-> Str("")]}

Err(status, message) == [t |-> "object", status |-> status, message |-> message]

\* What an upstream call can reject with: an error with a status, an error
\* with none, and a rejection that carries no error object.
ErrorSamples ==
    {Err(Num(404), "Not Found"),
     Err(Num(403), "API rate limit exceeded"),
     Err(Num(500), "Server Error"),
     Err(Undefined, "connect ECONNREFUSED"),
     Null}

FileMeta == [t |-> "object", name |-> Str("README.md"), path |-> Str("README.md"),
             size |-> Num(2), sha |-> Str("3b18e5")]

\* "aGk=\n" (hi), "w6k=" (e acute), "/w==" (the lone byte 255)
ContentSamples == {<<26, 6, 36, 64, 65>>, <<48, 58, 36, 64>>, <<63, 48, 64, 64>>}

FileSamples ==
    {FileMeta @@ [type |-> Str("file"), content |-> B64(c)] : c \in ContentSamples}
    \cup {FileMeta @@ [type |-> Str("file")],
          FileMeta @@ [type |-> Str("symlink")],
          Arr(<<FileMeta @@ [type |-> Str("file")]>>)}

GoodIssue == [number |-> 1, user |-> [t |-> "object", login |-> "octocat"],
              labels |-> <<[name |-> "bug"], [name |-> "help wanted"]>>]
GhostIssue == [number |-> 2, user |-> Null, labels |-> <<>>]

GoodCommit == [sha |-> "7fd1a60",
               commit |-> [message |-> "init",
                           author |-> [t |-> "object", name |-> "octocat"]]]
GhostCommit == [sha |-> "553c207", commit |-> [message |-> "wip", author |-> Null]]

SearchItem(matches) == [name |-> "server.js", path |-> "src/server.js",
                        text_matches |-> matches]

DataSamples(tool) ==
    CASE tool = "get_repository_info" ->
           {[t |-> "object", name |-> Str("Hello-World"), stargazers_count |-> Num(3),
             forks_count |-> Num(1), default_branch |-> Str("main"), id |-> Num(7)]}
      [] tool = "list_issues" -> {Arr(<<GoodIssue>>), Arr(<<GoodIssue, GhostIssue>>)}
      [] tool = "get_file_contents" -> FileSamples
      [] tool = "get_commits" -> {Arr(<<GoodCommit>>), Arr(<<GhostCommit>>)}
      [] OTHER ->
           {[t |-> "object", total_count |-> Num(1),
             items |-> Arr(<<SearchItem(Undefined), SearchItem(Arr(<<"match">>))>>)],
            [t |-> "object", total_count |-> Num(0)]}

\* Per tool, the ways its upstream call can settle.
Replies ==
    [tool \in ToolNames |->
        {Resolved(d) : d \in DataSamples(tool)} \cup {Rejected(e) : e \in ErrorSamples}]

----------------------------------------------------------------------------
(* State machine *)

Init ==
    /\ octokit \in BOOLEAN
    /\ tools = ToolNames
    /\ toolImplementations = ToolNames
    /\ pc = [r \in Clients |-> "idle"]
    /\ request = [r \in Clients |-> NoRequest]
    /\ sent = [r \in Clients |-> <<>>]
    /\ reply = [r \in Clients |-> NoReply]
    /\ result = [r \in Clients |-> NoResult]
    /\ response = [r \in Clients |-> <<>>]

Shared == <<octokit, tools, toolImplementations>>

\* A request arrives and its handler runs to its first await, or to its answer.
Receive(r, names, argset) ==
    /\ pc[r] = "idle"
    /\ \E toolName \in names, args \in argset :
         LET d == Dispatch(toolImplementations, octokit, toolName, args) IN
         /\ request' = [request EXCEPT ![r] = [toolName |-> toolName, arguments |-> args]]
         /\ pc' = [pc EXCEPT ![r] = d.pc]
         /\ sent' = [sent EXCEPT ![r] = d.sent]
         /\ result' = [result EXCEPT ![r] = d.result]
         /\ response' = [response EXCEPT ![r] = d.response]
    /\ UNCHANGED <<Shared, reply>>

\* The upstream call settles and the adapter runs to its return.
UpstreamReply(r, answers) ==
    /\ pc[r] = "awaitUpstream"
    /\ \E settled \in answers[request[r].toolName] :
         /\ reply' = [reply EXCEPT ![r] = settled]
         /\ result' = [result EXCEPT ![r] = AdapterContinue(request[r].toolName, settled)]
    /\ pc' = [pc EXCEPT ![r] = "awaitAdapter"]
    /\ UNCHANGED <<Shared, request, sent, response>>

\* A handler that keeps the adapter's result in a variable every request shares.
RespondShared(r) ==
    /\ pc[r] = "awaitAdapter"
    /\ \E q \in Clients :
         /\ pc[q] = "awaitAdapter"
         /\ response' = [response EXCEPT ![r] = response[r] \o RespondWith(result[q])]
    /\ pc' = [pc EXCEPT ![r] = "done"]
    /\ UNCHANGED <<Shared, request, sent, reply, result>>

\* The handler resumes with the adapter's settlement and answers.
Respond(r) ==
    /\ pc[r] = "awaitAdapter"
    /\ response' = [response EXCEPT ![r] = response[r] \o RespondWith(result[r])]
    /\ pc' = [pc EXCEPT ![r] = "done"]
    /\ UNCHANGED <<Shared, request, sent, reply, result>>

\* The exchange is over; the connection can carry the next request.
Close(r) ==
    /\ pc[r] = "done"
    /\ pc' = [pc EXCEPT ![r] = "idle"]
    /\ request' = [request EXCEPT ![r] = NoRequest]
    /\ sent' = [sent EXCEPT ![r] = <<>>]
    /\ reply' = [reply EXCEPT ![r] = NoReply]
    /\ result' = [result EXCEPT ![r] = NoResult]
    /\ response' = [response EXCEPT ![r] = <<>>]
    /\ UNCHANGED Shared

\* One request at a time, over every sampled input.
Next ==
    \/ Receive(1, ToolNameSamples, ArgSamples)
    \/ UpstreamReply(1, Replies)
    \/ Respond(1)
    \/ Close(1)

Spec == Init /\ [][Next]_vars

----------------------------------------------------------------------------
(* Concurrent requests, over a reduced set of inputs *)

ConcNames == {"list_issues", "get_file_contents", "delete_repository", "__proto__"}

ConcArgs == {Undefined, Required}

ConcReplies ==
    [tool \in ToolNames |->
        {Rejected(Err(Num(404), "Not Found")), Rejected(Err(Num(500), "Server Error")),
         Rejected(Null)}
        \cup (IF tool = "list_issues"
              THEN {Resolved(Arr(<<GoodIssue>>))}
              ELSE {Resolved(FileMeta @@ [type |-> Str("file"),
                                          content |-> B64(<<26, 6, 36, 64, 65>>)]),
                    Resolved(Arr(<<FileMeta @@ [type |-> Str("file")]>>))})]

ConcNext ==
    \E r \in Clients :
        \/ Receive(r, ConcNames, ConcArgs)
        \/ UpstreamReply(r, ConcReplies)
        \/ Respond(r)
        \/ Close(r)

ConcSpec == Init /\ [][ConcNext]_vars

----------------------------------------------------------------------------
(* Properties *)

Known(r) == request[r].toolName \in ToolNames
Answered(r) == pc[r] = "done"
RejectedWith(r, status) ==
    /\ reply[r].state = "rejected"
    /\ ~Nullish(reply[r].error)
    /\ reply[r].error.status = status

\* C1: every tool name that is not one of the six supported tools is answered
\* with status 404 and the body {error: "Tool not found"}, whether or not a
\* credential is configured.
C1_UnknownToolIs404 ==
    \A r \in Clients :
        (Answered(r) /\ ~Known(r))
            => response[r] = <<Response(404, ErrorBody("Tool not found"))>>

\* C2 as stated: every invocation made while no credential is configured is
\* answered with status 500 and the message "GitHub token not configured.",
\* and no adapter is run.
C2_NoCredentialAlways500 ==
    \A r \in Clients :
        (Answered(r) /\ ~octokit)
            => /\ response[r] = <<Response(500, ErrorBody("GitHub token not configured."))>>
               /\ result[r] = NoResult

\* C2 amended: an invocation of one of the six supported tools made while no
\* credential is configured is answered with status 500 and the message
\* "GitHub token not configured" (no full stop), no adapter is run and no
\* upstream call is issued.
C2_KnownToolNoCredential500 ==
    \A r \in Clients :
        (pc[r] # "idle" /\ Known(r) /\ ~octokit)
            => /\ Answered(r)
               /\ response[r] = <<Response(500, ErrorBody("GitHub token not configured"))>>
               /\ result[r] = NoResult
               /\ sent[r] = <<>>

C2_Witness ==
    \E r \in Clients : Answered(r) /\ Known(r) /\ ~octokit /\ Len(response[r]) = 1

\* C3: for each adapter and whatever its arguments, an upstream failure with
\* status 404 yields exactly {error: "Resource not found"} and one with status
\* 403 yields exactly {error: "Rate limit exceeded or insufficient permissions"}.
C3_StatusDecidesMessage ==
    \A r \in Clients :
        /\ RejectedWith(r, Num(404))
             => result[r] = Returned(ErrorBody("Resource not found"))
        /\ RejectedWith(r, Num(403))
             => result[r] =
                  Returned(ErrorBody("Rate limit exceeded or insufficient permissions"))

C3_Witness ==
    \E r \in Clients :
        /\ Answered(r)
        /\ RejectedWith(r, Num(403))
        /\ request[r].toolName = "get_commits"

\* C4 as stated: every response whose body is an error object carries status
\* 404 or 500.
C4_ErrorBodyNeverSuccess ==
    \A r \in Clients :
        \A i \in 1..Len(response[r]) :
            response[r][i].body.kind = "error" => response[r][i].status \in {404, 500}

\* C4 amended: every response with status 404 or 500 has an error body; an
\* error body carries status 404 when the name resolves to nothing in the
\* implementation table, status 500 when no credential is configured or an
\* exception reached the dispatcher, and status 200 when it is the error
\* object the adapter returned.
C4_ErrorBodyStatus ==
    \A r \in Clients :
        \A i \in 1..Len(response[r]) :
            LET resp == response[r][i] IN
            /\ resp.status \in {404, 500} => resp.body.kind = "error"
            /\ resp.body.kind = "error" =>
                 \/ /\ resp.status = 404
                    /\ ~Truthy(Lookup(ToolNames, request[r].toolName))
                 \/ /\ resp.status = 500
                    /\ ~octokit \/ result[r].kind = "thrown"
                 \/ /\ resp.status = 200
                    /\ octokit
                    /\ result[r] = Returned(resp.body)

C4_Witness ==
    \E r \in Clients :
        /\ Answered(r)
        /\ response[r] = <<Response(200, ErrorBody("Resource not found"))>>

\* The upstream answers whose reshaping faults.
Malformed(r) ==
    /\ reply[r].state = "resolved"
    /\ \/ reply[r].data = Arr(<<GoodIssue, GhostIssue>>)
       \/ reply[r].data = Arr(<<GhostCommit>>)
       \/ reply[r].data = FileMeta @@ [type |-> Str("file")]
       \/ reply[r].data = [t |-> "object", total_count |-> Num(0)]

Failed(r) ==
    \/ Nullish(request[r].arguments)
    \/ reply[r].state = "rejected"
    \/ Malformed(r)

\* C5: a request for a known tool with a credential configured gets exactly one
\* response; after any failure while the adapter ran, the body is an object
\* with an error field; an exception that reached the dispatcher is answered
\* with status 500 and its message; and a request not yet answered always has
\* a step left to take.
C5_FailuresAnswered ==
    \A r \in Clients :
        (pc[r] # "idle" /\ Known(r) /\ octokit) =>
            /\ Len(response[r]) = (IF Answered(r) THEN 1 ELSE 0)
            /\ (Answered(r) /\ Failed(r)) => response[r][1].body.kind = "error"
            /\ (Answered(r) /\ reply[r] = Rejected(Null)) =>
                 response[r] =
                   <<Response(500,
                              ErrorBody("Cannot read properties of null (reading 'status')"))>>
            /\ (Answered(r) /\ result[r].kind = "thrown") =>
                 response[r] = <<Response(500, ErrorBody(result[r].message))>>
            /\ pc[r] = "awaitUpstream" => ENABLED UpstreamReply(r, Replies)
            /\ pc[r] = "awaitAdapter" => ENABLED Respond(r)

C5_Witness ==
    \E r \in Clients :
        /\ Answered(r) /\ Known(r) /\ octokit
        /\ result[r].kind = "thrown"
        /\ Len(response[r]) = 1

\* C6: get_file_contents returns the file payload, with the content decoded,
\* only when the upstream response has type "file"; for every other response
\* it returns exactly {error: "Path is not a file"} and has made one upstream
\* call and no more.
C6_OnlyFilesAreRead ==
    \A r \in Clients :
        (request[r].toolName = "get_file_contents" /\ reply[r].state = "resolved") =>
            LET data == reply[r].data IN
            /\ (result[r].kind = "returned" /\ result[r].value.kind = "file")
                 => Get(data, "type") = Str("file")
            /\ Get(data, "content") = B64(<<26, 6, 36, 64, 65>>)
                 => /\ result[r].kind = "returned"
                    /\ result[r].value.kind = "file"
                    /\ result[r].value.content = <<104, 105>>
            /\ Get(data, "type") # Str("file")
                 => /\ result[r] = Returned(ErrorBody("Path is not a file"))
                    /\ Len(sent[r]) = 1

C6_Witness ==
    \E r \in Clients :
        /\ Answered(r)
        /\ request[r].toolName = "get_file_contents"
        /\ reply[r].state = "resolved"
        /\ reply[r].data.t = "array"

\* C7 as stated: a request that reaches an adapter issues exactly one upstream
\* call whatever the arguments; a rejected request issues none.
C7_ExactlyOneCall ==
    \A r \in Clients :
        Answered(r) => Len(sent[r]) = (IF Known(r) /\ octokit THEN 1 ELSE 0)

\* C7 amended: a request that reaches an adapter issues exactly one upstream
\* call when its body carries an arguments object, whether the call succeeds
\* or fails, and none when `arguments` is missing or null; every other request
\* issues none.
C7_OneCallPerArguments ==
    \A r \in Clients :
        pc[r] # "idle" =>
            Len(sent[r]) =
                (IF Known(r) /\ octokit /\ ~Nullish(request[r].arguments) THEN 1 ELSE 0)

C7_Witness ==
    \E r \in Clients :
        /\ Answered(r) /\ Known(r) /\ octokit
        /\ reply[r].state = "rejected"
        /\ Len(sent[r]) = 1

OtherFailure(r) ==
    /\ reply[r].state = "rejected"
    /\ ~Nullish(reply[r].error)
    /\ reply[r].error.status \notin {Num(404), Num(403)}

\* C8 as stated: an upstream failure with a status other than 404 and 403, or
\* with none, yields an error field that is the upstream message verbatim.
C8_MessageVerbatim ==
    \A r \in Clients :
        OtherFailure(r) => result[r] = Returned(ErrorBody(reply[r].error.message))

\* C8 amended: an upstream failure with a status other than 404 and 403, or
\* with none, yields an error field that is "GitHub API error: " followed by
\* the upstream message.
C8_MessagePrefixed ==
    \A r \in Clients :
        OtherFailure(r) =>
            result[r] = Returned(ErrorBody("GitHub API error: " \o reply[r].error.message))

C8_Witness ==
    \E r \in Clients :
        /\ Answered(r)
        /\ OtherFailure(r)
        /\ reply[r].error.status = Undefined

\* C9: under any interleaving of concurrent requests no step changes the
\* client handle, the tool registry or the implementation table, and two
\* requests with the same tool name, arguments and upstream answer get the
\* same response.
C9_RequestsIndependent ==
    /\ [][Shared' = Shared]_vars
    /\ [](\A r, q \in Clients :
             (/\ Answered(r) /\ Answered(q)
              /\ request[r] = request[q]
              /\ reply[r] = reply[q])
                 => response[r] = response[q])

C9_Witness ==
    \E r, q \in Clients :
        /\ r # q
        /\ Answered(r) /\ Answered(q)
        /\ request[r] = request[q]
        /\ reply[r] = reply[q]
        /\ reply[r].state = "resolved"
        /\ response[r] = response[q]

Supplied(a, key, default) == IF Get(a, key) # Undefined THEN Get(a, key) ELSE default

\* C10: the optional parameters state and per_page of list_issues, sha and
\* per_page of get_commits and ref of get_file_contents go upstream with the
\* caller's value whenever one is supplied, and with the default only when
\* the parameter is omitted.
C10_SuppliedValueForwarded ==
    \A r \in Clients :
        Len(sent[r]) = 1 =>
            LET a == request[r].arguments
                p == sent[r][1].params
                tool == request[r].toolName
            IN /\ tool = "list_issues" =>
                    /\ p.state = Supplied(a, "state", Str("open"))
                    /\ p.per_page = Supplied(a, "per_page", Num(30))
               /\ tool = "get_commits" =>
                    /\ p.sha = Supplied(a, "sha", Str("main"))
                    /\ p.per_page = Supplied(a, "per_page", Num(30))
               /\ tool = "get_file_contents" =>
                    p.ref = Supplied(a, "ref", Str("main"))

====
